---- MODULE Spec2Model ----
(***************************************************************************)
(* Model of sweetviz_streamlit_app.py: dataset loading, profiling, the     *)
(* four analysis modes (single, compare, train/test split, sub-population) *)
(* and the report rendering helper.  One script run (one user interaction) *)
(* is one action; the external collaborators (pandas readers, sweetviz,    *)
(* streamlit widgets, scikit-learn's splitter) appear as inputs whose      *)
(* outcome (value returned, or exception raised) is chosen with \E.        *)
(***************************************************************************)
EXTENDS Integers, Sequences, FiniteSets, TLC

----------------------------------------------------------------------------
(* Bounds of the model                                                     *)

\* rows of the tables offered to the single-dataset mode and to the loader
MaxRows == 2
\* rows of the tables offered to the train/test mode
MaxSplitRows == 4
\* cells appended after the ramp of distinct values (sub-population mode)
MaxTail == 2
\* largest explicit row cap handed to load_and_validate_data
MaxCap == 3

----------------------------------------------------------------------------
(* Values                                                                  *)

\* Optional values are sequences of length 0 (Python's None: no file, no
\* dataframe, no warning, no target) or of length 1 (the value).
None == <<>>
Some(x) == <<x>>
Get(o) == o[1]

\* A cell of a dataframe: NaN/None/NaT, a number, a text value, or a
\* timestamp (v: its nanoseconds since the epoch).
Null == [kind |-> "null", v |-> 0]
Num(n) == [kind |-> "num", v |-> n]
Text(i) == [kind |-> "text", v |-> i]
Date(i) == [kind |-> "date", v |-> i]

IsNull(c) == c.kind = "null"

\* Python truthiness of an optional column label: None and the empty label
\* are falsy.
Truthy(o) == o # None /\ Get(o) # ""

Max(a, b) == IF a >= b THEN a ELSE b

SeqToSet(s) == {s[i] : i \in 1..Len(s)}

\* sequences over S of length at most n
SeqsUpTo(S, n) == UNION {[1..k -> S] : k \in 0..n}

\* the first n elements of s (all of s when it is shorter)
Take(s, n) == SubSeq(s, 1, IF n < Len(s) THEN n ELSE Len(s))

----------------------------------------------------------------------------
(* Dataframes: columns is the list of (unique) column labels, rows the     *)
(* list of rows, each a tuple aligned with columns.                        *)

DataFrame(cols, rows) == [columns |-> cols, rows |-> rows]

\* len(df)
len(df) == Len(df.rows)

ColIndex(df, c) == CHOOSE i \in 1..Len(df.columns) : df.columns[i] = c

\* df[c] : the column as a sequence of cells
Col(df, c) == [r \in 1..len(df) |-> df.rows[r][ColIndex(df, c)]]

\* a slip: the last n rows instead of the first
head_tail(df, n) ==
    DataFrame(df.columns,
              SubSeq(df.rows, Max(1, Len(df.rows) - n + 1), Len(df.rows)))

\* df.head(n) for n >= 0
head(df, n) == DataFrame(df.columns, Take(df.rows, n))

\* df.isnull().sum().sum()
NullCells(df) ==
    Cardinality({<<r, c>> \in (1..len(df)) \X (1..Len(df.columns)) :
                    IsNull(df.rows[r][c])})

----------------------------------------------------------------------------
(* File names are sequences of characters, so that lower() and endswith()  *)
(* are computed rather than assumed.                                       *)

LowerChar(ch) ==
    CASE ch = "C" -> "c"
      [] ch = "S" -> "s"
      [] ch = "V" -> "v"
      [] ch = "J" -> "j"
      [] ch = "O" -> "o"
      [] ch = "N" -> "n"
      [] OTHER -> ch

\* str.lower()
lower(s) == [i \in 1..Len(s) |-> LowerChar(s[i])]

\* a slip: the suffix anywhere in the name
endswith_anywhere(s, suf) ==
    \E i \in 1..Len(s) :
        /\ i + Len(suf) - 1 <= Len(s)
        /\ SubSeq(s, i, i + Len(suf) - 1) = suf

\* str.endswith(suffix)
endswith(s, suf) ==
    /\ Len(suf) <= Len(s)
    /\ SubSeq(s, Len(s) - Len(suf) + 1, Len(s)) = suf

\* name.split('.')[0]
SplitFirst(s) ==
    IF \E i \in 1..Len(s) : s[i] = "."
    THEN SubSeq(s, 1, (CHOOSE i \in 1..Len(s) :
                          s[i] = "." /\ \A j \in 1..(i-1) : s[j] # ".") - 1)
    ELSE s

DotCsv == <<".", "c", "s", "v">>
DotJson == <<".", "j", "s", "o", "n">>

----------------------------------------------------------------------------
(* load_and_validate_data                                                  *)

\* default of the max_rows parameter
max_rows_default == 100000

\* An uploaded file: its name, whether the pandas reader raises on its
\* bytes, and the table the reader returns otherwise.
UploadedFile(name, raises, table) ==
    [name |-> name, raises |-> raises, table |-> table]

\* the two returns of load_and_validate_data that carry no dataframe
LoadFailed(msg) == [df |-> None, warning |-> msg]

load_and_validate_data(uploaded_file, max_rows) ==
    IF ~(endswith(lower(uploaded_file.name), DotCsv)
         \/ endswith(lower(uploaded_file.name), DotJson))
    THEN LoadFailed(Some([text |-> "Unsupported file format!"]))
    ELSE IF uploaded_file.raises
    THEN LoadFailed(Some([text |-> "Error loading file"]))
    ELSE LET df == uploaded_file.table
             original_rows == len(df)
         IN  IF original_rows > max_rows
             THEN [df |-> Some(head(df, max_rows)),
                   warning |-> Some([text |-> "Dataset truncated",
                                     original_rows |-> original_rows,
                                     max_rows |-> max_rows])]
             ELSE [df |-> Some(df), warning |-> None]

----------------------------------------------------------------------------
(* display_dataset_info: the metrics shown.  missing_pct is kept as the    *)
(* exact fraction missing_num / missing_den (in percent).                  *)

\* a slip: the denominator not floored at 1
display_dataset_info_unfloored(df, title) ==
    [title |-> title,
     rows |-> len(df),
     columns |-> Len(df.columns),
     nulls |-> NullCells(df),
     missing_num |-> NullCells(df) * 100,
     missing_den |-> len(df) * Len(df.columns)]

display_dataset_info(df, title) ==
    [title |-> title,
     rows |-> len(df),
     columns |-> Len(df.columns),
     nulls |-> NullCells(df),
     missing_num |-> NullCells(df) * 100,
     missing_den |-> Max(1, len(df) * Max(1, Len(df.columns)))]

----------------------------------------------------------------------------
(* generate_sweetviz_report.  fail names the external call that raises in  *)
(* this run ("ok": none does).                                             *)

ExtOutcomes ==
    {"ok", "build", "tmpfile", "show_html", "read", "embed", "unlink",
     "download"}

\* what one script run leaves behind
Blank ==
    [loaded |-> <<>>, infos |-> <<>>, messages |-> <<>>, calls |-> <<>>,
     request |-> None, target_feat |-> None, split |-> None,
     subpop |-> None, unhandled |-> FALSE, tmp_created |-> FALSE,
     tmp_exists |-> FALSE, returned |-> "not called", embedded |-> FALSE,
     download |-> None, raised |-> "none"]

Say(r, msg) == [r EXCEPT !.messages = Append(@, msg)]
Info(r, df, title) ==
    [r EXCEPT !.infos = Append(@, display_dataset_info(df, title))]
Call(r, fn) == [r EXCEPT !.calls = Append(@, fn)]

\* an external call raised
Raised(r, what) == [r EXCEPT !.raised = what]

\* except Exception as e: st.error(...); return False
GenError(r, what) ==
    [Say(Raised(r, what), "error: generating Sweetviz report")
        EXCEPT !.returned = "False"]

generate_sweetviz_report(r, report_name, download_filename, fail) ==
    IF fail = "tmpfile" THEN GenError(r, fail)
    ELSE
    \* NamedTemporaryFile(delete=False), then report_obj.show_html
    LET tmp == [r EXCEPT !.tmp_created = TRUE, !.tmp_exists = TRUE]
        html == Call(tmp, "show_html")
    IN  IF fail = "show_html" THEN GenError(html, fail)
        \* open(html_path).read()
        ELSE IF fail = "read" THEN GenError(html, fail)
        ELSE
        \* the success box, then components.html
        LET success == Say(html, "success")
        IN  IF fail = "embed" THEN GenError(success, fail)
            ELSE
            LET inPage == [success EXCEPT !.embedded = TRUE]
            \* os.unlink(html_path)
            IN  IF fail = "unlink" THEN GenError(inPage, fail)
                ELSE
                LET unlinked == [inPage EXCEPT !.tmp_exists = FALSE]
                \* st.download_button
                IN  IF fail = "download" THEN GenError(unlinked, fail)
                    ELSE [unlinked EXCEPT
                             !.download = Some(download_filename),
                             !.returned = "True"]

\* the report object built by sweetviz from the rows of each side
Request(fn, source_rows, compare_rows, target_feat, feat_cfg) ==
    [fn |-> fn, source_rows |-> source_rows, compare_rows |-> compare_rows,
     target_feat |-> target_feat, feat_cfg |-> feat_cfg]

\* target_feat = None if target_feature == "None" else target_feature
TargetFeat(target_feature) ==
    IF target_feature = "None" THEN None ELSE Some(target_feature)

\* the load of one file, recorded; the warning box when truncated
Loaded(r, ld) == [r EXCEPT !.loaded = Append(@, ld)]
Warned(r, ld) == IF ld.warning # None THEN Say(r, "warning: truncated") ELSE r

Rows(df) == 1..len(df)

DownloadName(prefix, parts) == <<prefix>> \o parts \o <<".html">>

----------------------------------------------------------------------------
(* 1) Single Dataset Analysis                                              *)

SingleRun(file, target_feature, clicked, fail) ==
    IF file = None THEN Say(Blank, "instructions")
    ELSE
    LET uploaded_file == Get(file)
        ld == load_and_validate_data(uploaded_file, max_rows_default)
        r0 == Loaded(Blank, ld)
    IN  IF ld.df = None THEN Say(r0, "error: load")
        ELSE
        LET df == Get(ld.df)
            r1 == Info(Warned(r0, ld), df, "Dataset Overview")
        IN  IF ~clicked THEN r1
            ELSE
            LET target_feat == TargetFeat(target_feature)
                r2 == Call([r1 EXCEPT !.target_feat = target_feat],
                           "sv.analyze")
            IN  IF fail = "build"
                THEN [Raised(r2, fail) EXCEPT !.unhandled = TRUE]
                ELSE generate_sweetviz_report(
                        [r2 EXCEPT !.request =
                            Some(Request("sv.analyze", Rows(df), {},
                                         target_feat, None))],
                        "Analysis",
                        DownloadName("sweetviz_analysis_",
                                     SplitFirst(uploaded_file.name)),
                        fail)

----------------------------------------------------------------------------
(* 2) Compare Two Datasets                                                 *)

\* target_feat and (target_feat not in df1.columns
\*                  or target_feat not in df2.columns)
TargetMismatch(target_feat, df1, df2) ==
    /\ Truthy(target_feat)
    /\ \/ Get(target_feat) \notin SeqToSet(df1.columns)
       \/ Get(target_feat) \notin SeqToSet(df2.columns)

CompareRun(file1, file2, target_feature, clicked, fail) ==
    IF file1 = None \/ file2 = None THEN Say(Blank, "instructions")
    ELSE
    LET ld1 == load_and_validate_data(Get(file1), max_rows_default)
        ld2 == load_and_validate_data(Get(file2), max_rows_default)
        r0 == Loaded(Loaded(Blank, ld1), ld2)
    IN  IF ld1.df = None \/ ld2.df = None
        THEN LET e1 == IF ld1.df = None
                       THEN Say(r0, "error: load source") ELSE r0
             IN  IF ld2.df = None THEN Say(e1, "error: load compare") ELSE e1
        ELSE
        LET df1 == Get(ld1.df)
            df2 == Get(ld2.df)
            w1 == IF ld1.warning # None
                  THEN Say(r0, "warning: truncated source") ELSE r0
            w2 == IF ld2.warning # None
                  THEN Say(w1, "warning: truncated compare") ELSE w1
            r1 == Info(Info(w2, df1, "Source Dataset"), df2, "Compare Dataset")
            common_cols == SeqToSet(df1.columns) \cap SeqToSet(df2.columns)
            r2 == IF Cardinality(common_cols) = 0
                  THEN Say(r1, "error: no common columns")
                  ELSE Say(r1, "common columns found")
        IN  IF ~clicked THEN r2
            ELSE
            LET target_feat == TargetFeat(target_feature)
                r3 == [r2 EXCEPT !.target_feat = target_feat]
            IN  IF TargetMismatch(target_feat, df1, df2)
                THEN Say(r3, "error: target not in both")
                ELSE
                LET r4 == Call(r3, "sv.compare")
                IN  IF fail = "build"
                    THEN [Raised(r4, fail) EXCEPT !.unhandled = TRUE]
                    ELSE generate_sweetviz_report(
                            [r4 EXCEPT !.request =
                                Some(Request("sv.compare", Rows(df1),
                                             Rows(df2), target_feat, None))],
                            "Comparison Analysis",
                            DownloadName("sweetviz_compare_",
                                SplitFirst(Get(file1).name) \o <<"_vs_">>
                                \o SplitFirst(Get(file2).name)),
                            fail)

----------------------------------------------------------------------------
(* 3) Train/Test Split Comparison                                          *)

\* the slider yields train_size = k / TrainSizeDen, k in 2..18 (0.1 .. 0.9
\* in steps of 0.05)
TrainSizeDen == 20
TrainSizeMin == 2
TrainSizeMax == 18

\* the rows of df whose index is in idx, as a dataframe
TakeRows(df, idx) ==
    LET RECURSIVE Build(_)
        Build(i) == IF i > len(df) THEN <<>>
                    ELSE IF i \in idx THEN <<df.rows[i]>> \o Build(i + 1)
                    ELSE Build(i + 1)
    IN  DataFrame(df.columns, Build(1))

\* n_train = floor(train_size * n_samples)
NTrain(n, train_size) == (train_size * n) \div TrainSizeDen
\* test_size is None: n_test = n_samples - n_train
NTest(n, train_size) == n - NTrain(n, train_size)

Classes(y) == SeqToSet(y)
ClassRows(y, c) == {i \in 1..Len(y) : y[i] = c}

\* train_test_split raises ValueError: an empty train set, or (stratified)
\* a class with fewer than 2 members, or fewer train or test rows than
\* classes
SplitRaises(n, train_size, stratify) ==
    \/ NTrain(n, train_size) = 0
    \/ /\ stratify # None
       /\ LET y == Get(stratify)
          IN  \/ \E c \in Classes(y) : Cardinality(ClassRows(y, c)) < 2
              \/ NTrain(n, train_size) < Cardinality(Classes(y))
              \/ NTest(n, train_size) < Cardinality(Classes(y))

\* the train rows: the n_train entries of the permutation that follow the
\* test rows
TrainChoices(idx, test, n_train) ==
    {tr \in SUBSET (idx \ test) : Cardinality(tr) = n_train}

\* stratified: each class gives the train set its proportional share,
\* rounded down or up
Proportional(y, train, n, n_train) ==
    \A c \in Classes(y) :
        LET k == Cardinality(ClassRows(y, c))
            got == Cardinality(train \cap ClassRows(y, c))
        IN  /\ got * n >= k * n_train - (n - 1)
            /\ got * n <= k * n_train + (n - 1)

\* a slip: the training set handed over as both sides
SplitReport_same(s, target_feat) ==
    Request("sv.compare", s.train, s.train, target_feat, None)

\* sv.compare(source=[train_df, ...], compare=[test_df, ...], target_feat)
SplitReport(s, target_feat) ==
    Request("sv.compare", s.train, s.test, target_feat, None)

\* every (train, test) the shuffle can return, over all random states
train_test_split(df, train_size, stratify) ==
    LET n == len(df)
        idx == 1..n
        n_train == NTrain(n, train_size)
        n_test == NTest(n, train_size)
    IN  {[train |-> tr, test |-> te] :
            <<te, tr>> \in
              {p \in (SUBSET idx) \X (SUBSET idx) :
                  /\ Cardinality(p[1]) = n_test
                  /\ p[2] \in TrainChoices(idx, p[1], n_train)
                  /\ stratify # None =>
                        Proportional(Get(stratify), p[2], n, n_train)}}

SplitRun(file, train_size, stratify_col, target_feature, clicked, fail) ==
    IF file = None THEN {Say(Blank, "instructions")}
    ELSE
    LET uploaded_file == Get(file)
        ld == load_and_validate_data(uploaded_file, max_rows_default)
        r0 == Loaded(Blank, ld)
    IN  IF ld.df = None THEN {Say(r0, "error: load")}
        ELSE
        LET df == Get(ld.df)
            r1 == Info(Warned(r0, ld), df, "Full Dataset")
        IN  IF ~clicked THEN {r1}
            ELSE
            LET stratify == IF stratify_col # "None"
                            THEN Some(Col(df, stratify_col)) ELSE None
            IN  IF SplitRaises(len(df), train_size, stratify)
                THEN {Say(Raised(r1, "split"),
                          "error: creating train/test split")}
                ELSE
                {LET train_df == TakeRows(df, s.train)
                     test_df == TakeRows(df, s.test)
                     r2 == Info(Info([r1 EXCEPT !.split = Some(s)],
                                     train_df, "Training Set"),
                                test_df, "Test Set")
                     target_feat == TargetFeat(target_feature)
                     r3 == Call([r2 EXCEPT !.target_feat = target_feat],
                                "sv.compare")
                 IN  IF fail = "build"
                     THEN Say(Raised(r3, fail),
                              "error: creating train/test split")
                     ELSE generate_sweetviz_report(
                             [r3 EXCEPT !.request =
                                 Some(SplitReport(s, target_feat))],
                             "Train/Test Comparison",
                             DownloadName("sweetviz_train_test_",
                                          SplitFirst(uploaded_file.name)),
                             fail)
                 : s \in train_test_split(df, train_size, stratify)}

----------------------------------------------------------------------------
(* 4) Sub-population Comparison                                            *)

\* a column of at most this many distinct values is split by equality
MaxCategories == 20

\* a slip: unique() without dropna()
unique_vals_keepna(col) == SeqToSet(col)

\* df[c].dropna().unique()
unique_vals(col) == {col[i] : i \in {j \in 1..Len(col) : ~IsNull(col[j])}}

\* df[c].dtype == "object": the column holds a text value
IsObject(col) == \E i \in 1..Len(col) : col[i].kind = "text"

\* df[c].dtype is datetime64: read_json parsed the column as dates
IsDatetime(col) ==
    /\ \E i \in 1..Len(col) : col[i].kind = "date"
    /\ \A i \in 1..Len(col) : col[i].kind \in {"date", "null"}

\* the integer pandas stores for NaT: the least of the integer type
\* (-2^63 in pandas; the least this model's integers reach)
iNaT == -2147483647

\* pd.to_numeric(col, errors="coerce"): a datetime64 column is viewed as
\* its integers, NaT included; elsewhere what is no number becomes NaN
to_numeric(col) ==
    IF IsDatetime(col)
    THEN [i \in 1..Len(col) |->
            IF col[i].kind = "date" THEN Num(col[i].v) ELSE Num(iNaT)]
    ELSE [i \in 1..Len(col) |->
            IF col[i].kind = "num" THEN col[i] ELSE Null]

\* len(unique_vals) <= 20 or df[c].dtype == "object"
ByEquality(col) ==
    Cardinality(unique_vals(col)) <= MaxCategories \/ IsObject(col)

\* df[c] == condition_value (NaN equals nothing)
EqMask(col, condition_value) ==
    [i \in 1..Len(col) |-> ~IsNull(col[i]) /\ col[i] = condition_value]

\* pd.to_numeric(df[c], errors="coerce") <= threshold (NaN <= t is False)
LeMask(col, threshold) ==
    [i \in 1..Len(col) |->
        LET x == to_numeric(col)[i] IN ~IsNull(x) /\ x.v <= threshold]

\* condition_series.sum()
MaskSum(mask) == Cardinality({i \in 1..Len(mask) : mask[i]})

\* g1, g2 = int(condition_series.sum()), int(len(df) - condition_series.sum())
Group1(df, mask) == MaskSum(mask)
Group2(df, mask) == len(df) - MaskSum(mask)

\* a slip: the value widget offers the nulls of the column too
ConditionChoices_withna(col, thresholds) ==
    IF ByEquality(col) THEN SeqToSet(col) ELSE {Num(t) : t \in thresholds}

\* the widget that applies to the column offers these values
ConditionChoices(col, thresholds) ==
    IF ByEquality(col) THEN unique_vals(col) ELSE {Num(t) : t \in thresholds}

ConditionSeries(col, choice) ==
    IF ByEquality(col) THEN EqMask(col, choice) ELSE LeMask(col, choice.v)

SubpopRun(file, condition_column, choice, target_feature, force_num_cols, clicked, fail) ==
    IF file = None THEN Say(Blank, "instructions")
    ELSE
    LET uploaded_file == Get(file)
        ld == load_and_validate_data(uploaded_file, max_rows_default)
        r0 == Loaded(Blank, ld)
    IN  IF ld.df = None THEN Say(r0, "error: load")
        ELSE
        LET df == Get(ld.df)
            r1 == Info(Warned(r0, ld), df, "Full Dataset")
        IN  IF ~Truthy(condition_column) THEN r1
            ELSE
            LET col == Col(df, Get(condition_column))
            IN  IF Cardinality(unique_vals(col)) < 2
                THEN Say(r1, "error: fewer than 2 unique values")
                ELSE
                LET condition_series == ConditionSeries(col, choice)
                    g1 == Group1(df, condition_series)
                    g2 == Group2(df, condition_series)
                    r2 == [r1 EXCEPT !.subpop =
                              Some([column |-> Get(condition_column),
                                    by_equality |-> ByEquality(col),
                                    choice |-> choice,
                                    mask |-> condition_series,
                                    g1 |-> g1, g2 |-> g2])]
                IN  IF g1 = 0 \/ g2 = 0
                    THEN Say(r2, "error: empty group")
                    ELSE IF ~clicked THEN r2
                    ELSE
                    LET feat_cfg == IF force_num_cols # {}
                                    THEN Some(force_num_cols) ELSE None
                        target_feat == TargetFeat(target_feature)
                        r3 == Call([r2 EXCEPT !.target_feat = target_feat],
                                   "sv.compare_intra")
                    IN  IF fail = "build"
                        THEN Say(Raised(r3, fail),
                                 "error: creating sub-population comparison")
                        ELSE generate_sweetviz_report(
                                [r3 EXCEPT !.request =
                                    Some(Request("sv.compare_intra",
                                        {i \in Rows(df) : condition_series[i]},
                                        {i \in Rows(df) : ~condition_series[i]},
                                        target_feat, feat_cfg))],
                                "Sub-population Comparison",
                                DownloadName("sweetviz_subpop_",
                                    SplitFirst(uploaded_file.name)),
                                fail)

----------------------------------------------------------------------------
(* Inputs: the uploads and widget settings one run can see                 *)

FileNames ==
    {<<"d", ".", "c", "s", "v">>, <<"D", ".", "C", "S", "V">>,
     <<"d", ".", "J", "s", "o", "n">>, <<"d", ".", "t", "x", "t">>,
     <<"c", "s", "v">>, <<"d", ".", "c", "s", "v", ".", "b", "a", "k">>}

CsvName == <<"d", ".", "c", "s", "v">>
JsonName == <<"d", ".", "j", "s", "o", "n">>
TxtName == <<"d", ".", "t", "x", "t">>

\* all tables of the given columns with at most n rows of the given cells
TablesOver(cols, n, cells) ==
    {DataFrame(cols, rows) : rows \in SeqsUpTo([1..Len(cols) -> cells], n)}

SmallCells == {Null, Num(1)}
SmallTables ==
    UNION {TablesOver(cols, MaxRows, SmallCells) :
              cols \in {<<>>, <<"a">>, <<"b">>, <<"a", "b">>}}

SampleTable == DataFrame(<<"a">>, <<<<Num(1)>>, <<Null>>>>)

\* a file that parses to table t: only read_json yields an empty column
\* label or a column of timestamps
GoodFile(t) ==
    IF \/ "" \in SeqToSet(t.columns)
       \/ \E r \in 1..Len(t.rows) : \E c \in 1..Len(t.columns) :
             t.rows[r][c].kind = "date"
    THEN UploadedFile(JsonName, FALSE, t)
    ELSE UploadedFile(CsvName, FALSE, t)
\* every name, parsing or raising
AnyFiles == {UploadedFile(n, r, SampleTable) : n \in FileNames, r \in BOOLEAN}
\* an unsupported name and a malformed file
BadFiles == {UploadedFile(TxtName, FALSE, SampleTable),
             UploadedFile(CsvName, TRUE, SampleTable)}

Uploads(tables, others) ==
    {None} \cup {Some(GoodFile(t)) : t \in tables} \cup {Some(f) : f \in others}

\* compare mode: tables of one row; column labels include the empty label
\* and the label "None"
CompareTables ==
    {DataFrame(cols, <<[i \in 1..Len(cols) |-> Num(1)]>>) :
        cols \in {<<>>, <<"">>, <<"a">>, <<"None">>, <<"", "a">>,
                  <<"a", "None">>, <<"a", "b">>}}

\* train/test mode: one column of two classes
SplitTables == TablesOver(<<"a">>, MaxSplitRows, {Num(1), Num(2)})
TrainSizes == {TrainSizeMin, 10, 16, TrainSizeMax}

\* sub-population mode: a ramp of n distinct numbers followed by a tail
Ramp(n) == [i \in 1..n |-> <<Num(i)>>]
RampLengths == {1, MaxCategories, MaxCategories + 1}
TailCells == {Null, Num(30), Text(1)}
DateRamp(n) == [i \in 1..n |-> <<Date(i)>>]
DateTailCells == {Null, Date(30)}
RampTables ==
    {DataFrame(<<"a">>, Ramp(n) \o tail) :
        n \in RampLengths, tail \in SeqsUpTo([1..1 -> TailCells], MaxTail)}
    \cup {DataFrame(<<"date">>, DateRamp(MaxCategories + 1) \o tail) :
             tail \in SeqsUpTo([1..1 -> DateTailCells], MaxTail)}
    \cup {DataFrame(<<>>, <<>>), DataFrame(<<"">>, <<<<Num(1)>>, <<Num(2)>>>>)}
Thresholds == {0, 10, 30}

\* the options of a target selectbox: ["None"] + list(columns)
TargetOptions(cols) == {"None"} \cup cols

\* the file is there and loads
LoadsOk(file) ==
    file # None
    /\ load_and_validate_data(Get(file), max_rows_default).df # None

\* the columns a widget can list (none before the dataframe is loaded)
ColumnsOf(file) ==
    IF LoadsOk(file) THEN SeqToSet(Get(file).table.columns) ELSE {}

\* the button cannot be pressed before it is drawn; what raises matters
\* only once it is pressed
Presses == {<<FALSE, "ok">>} \cup {<<TRUE, f>> : f \in ExtOutcomes}

----------------------------------------------------------------------------
(* State                                                                   *)

VARIABLES
    pc,             \* "ready": awaiting the interaction; "rendered": run over
    analysis_type,  \* the mode selected in the sidebar
    uploads,        \* the uploaded files (None where nothing is uploaded)
    max_rows,       \* the row cap the loader was called with
    widgets,        \* the widget settings and button press of the run
    loaded,         \* the results of load_and_validate_data, in call order
    infos,          \* the metrics display_dataset_info showed, in order
    messages,       \* instructions, warnings, errors, success boxes shown
    calls,          \* calls made to sweetviz, in order
    request,        \* the report object handed to generate_sweetviz_report
    target_feat,    \* target_feat as computed from the selectbox
    split,          \* the train/test partition (row indices)
    subpop,         \* the sub-population mask and group sizes
    unhandled,      \* an exception escaped the script
    raised,         \* the external call that raised in this run
    tmp_created,    \* the run created a temporary file
    tmp_exists,     \* that file still exists when the run ends
    returned,       \* what generate_sweetviz_report returned
    embedded,       \* the report was embedded in the page
    download        \* the file name of the download button

vars ==
    <<pc, analysis_type, uploads, max_rows, widgets, loaded, infos, messages, calls,
      request, target_feat, split, subpop, unhandled, raised, tmp_created,
      tmp_exists, returned, embedded, download>>

\* the run's outcome becomes the state
Emit(r) ==
    /\ loaded' = r.loaded
    /\ infos' = r.infos
    /\ messages' = r.messages
    /\ calls' = r.calls
    /\ request' = r.request
    /\ target_feat' = r.target_feat
    /\ split' = r.split
    /\ subpop' = r.subpop
    /\ unhandled' = r.unhandled
    /\ raised' = r.raised
    /\ tmp_created' = r.tmp_created
    /\ tmp_exists' = r.tmp_exists
    /\ returned' = r.returned
    /\ embedded' = r.embedded
    /\ download' = r.download

\* the widgets as they stand when nothing is set
NoWidgets ==
    [target_feature |-> "None", clicked |-> FALSE, fail |-> "ok",
     condition_column |-> None, choice |-> Null, train_size |-> 0,
     stratify_col |-> "None", force_num_cols |-> {}]

\* the sidebar's analysis types, and the helper called on its own
AnalysisTypes == {"load", "single", "compare", "split", "subpop"}

Start(files, cap, w) ==
    /\ pc' = "rendered"
    /\ UNCHANGED analysis_type
    /\ uploads' = files
    /\ max_rows' = cap
    /\ widgets' = w

Pressed(w, target_feature, press) ==
    [w EXCEPT !.target_feature = target_feature, !.clicked = press[1],
              !.fail = press[2]]

Init ==
    /\ pc = "ready"
    /\ analysis_type \in AnalysisTypes
    /\ uploads = <<>>
    /\ max_rows = max_rows_default
    /\ widgets = NoWidgets
    /\ loaded = Blank.loaded
    /\ infos = Blank.infos
    /\ messages = Blank.messages
    /\ calls = Blank.calls
    /\ request = Blank.request
    /\ target_feat = Blank.target_feat
    /\ split = Blank.split
    /\ subpop = Blank.subpop
    /\ unhandled = Blank.unhandled
    /\ raised = Blank.raised
    /\ tmp_created = Blank.tmp_created
    /\ tmp_exists = Blank.tmp_exists
    /\ returned = Blank.returned
    /\ embedded = Blank.embedded
    /\ download = Blank.download

\* a direct call of load_and_validate_data with an explicit row cap
Load ==
    /\ pc = "ready"
    /\ analysis_type = "load"
    /\ \E f \in {GoodFile(t) : t \in SmallTables} \cup AnyFiles, cap \in 0..MaxCap :
        /\ Start(<<Some(f)>>, cap, NoWidgets)
        /\ Emit(Loaded(Blank, load_and_validate_data(f, cap)))

Single ==
    /\ pc = "ready"
    /\ analysis_type = "single"
    /\ \E file \in Uploads(SmallTables, AnyFiles) :
      \E target_feature \in TargetOptions(ColumnsOf(file)), press \in Presses :
        /\ Start(<<file>>, max_rows_default,
                 Pressed(NoWidgets, target_feature, press))
        /\ Emit(SingleRun(file, target_feature, press[1], press[2]))

Compare ==
    /\ pc = "ready"
    /\ analysis_type = "compare"
    /\ \E file1 \in Uploads(CompareTables, BadFiles),
       file2 \in Uploads(CompareTables, BadFiles) :
      \E target_feature \in
            TargetOptions(ColumnsOf(file1) \cup ColumnsOf(file2)),
         press \in Presses :
        /\ Start(<<file1, file2>>, max_rows_default,
                 Pressed(NoWidgets, target_feature, press))
        /\ Emit(CompareRun(file1, file2, target_feature, press[1], press[2]))

TrainTest ==
    /\ pc = "ready"
    /\ analysis_type = "split"
    /\ \E file \in Uploads(SplitTables, BadFiles), train_size \in TrainSizes :
      \E stratify_col \in TargetOptions(ColumnsOf(file)),
         target_feature \in TargetOptions(ColumnsOf(file)),
         press \in Presses :
        /\ Start(<<file>>, max_rows_default,
                 Pressed([NoWidgets EXCEPT !.train_size = train_size,
                                           !.stratify_col = stratify_col],
                         target_feature, press))
        /\ \E r \in SplitRun(file, train_size, stratify_col, target_feature,
                             press[1], press[2]) : Emit(r)

\* st.selectbox(label, df.columns): a column, or None when there is none
ColumnChoices(file) ==
    IF ColumnsOf(file) = {} THEN {None} ELSE {Some(c) : c \in ColumnsOf(file)}

\* the value or threshold widget, once the column passed the checks
ChoicesFor(file, condition_column) ==
    IF LoadsOk(file) /\ Truthy(condition_column)
    THEN LET col == Col(Get(file).table, Get(condition_column))
         IN  IF Cardinality(unique_vals(col)) < 2 THEN {Null}
             ELSE ConditionChoices(col, Thresholds)
    ELSE {Null}

Subpop ==
    /\ pc = "ready"
    /\ analysis_type = "subpop"
    /\ \E file \in Uploads(RampTables, BadFiles) :
      \E condition_column \in ColumnChoices(file) :
        \E choice \in ChoicesFor(file, condition_column),
           setting \in {<<"None", {}>>} \cup
                       {<<c, {c}>> : c \in ColumnsOf(file)},
           press \in Presses :
          LET target_feature == setting[1]
              force_num_cols == setting[2]
          IN
          /\ Start(<<file>>, max_rows_default,
                   Pressed([NoWidgets EXCEPT
                               !.condition_column = condition_column,
                               !.choice = choice,
                               !.force_num_cols = force_num_cols],
                           target_feature, press))
          /\ Emit(SubpopRun(file, condition_column, choice, target_feature,
                            force_num_cols, press[1], press[2]))

\* the next interaction reruns the script from the top
Rerun ==
    /\ pc = "rendered"
    /\ pc' = "ready"
    /\ analysis_type' \in AnalysisTypes
    /\ uploads' = <<>>
    /\ max_rows' = max_rows_default
    /\ widgets' = NoWidgets
    /\ Emit(Blank)

Next == Load \/ Single \/ Compare \/ TrainTest \/ Subpop \/ Rerun

Spec == Init /\ [][Next]_vars

----------------------------------------------------------------------------
(* Properties                                                              *)

Modes == {"single", "compare", "split", "subpop"}

\* the names that end in .csv or .json, whatever the case
SupportedNames ==
    {<<"d", ".", "c", "s", "v">>, <<"D", ".", "C", "S", "V">>,
     <<"d", ".", "j", "s", "o", "n">>, <<"d", ".", "J", "s", "o", "n">>}

\* the i-th load of the run and the file it read
LoadIndices == IF Len(loaded) = Len(uploads) THEN 1..Len(loaded) ELSE {}
FileOf(i) == Get(uploads[i])

Shown(msg) == \E i \in 1..Len(messages) : messages[i] = msg
Called(fn) == \E i \in 1..Len(calls) : calls[i] = fn

\* C1: a file that parses to more than max_rows rows loads as exactly its
\* first max_rows rows, in order, with a warning that reports the original
\* row count; a file of at most max_rows rows loads unchanged, without a
\* warning.
C1_Truncation ==
    \A i \in LoadIndices :
        LET f == FileOf(i)
            ld == loaded[i]
            n == Len(f.table.rows)
        IN  (f.name \in SupportedNames /\ ~f.raises) =>
              /\ ld.df # None
              /\ Get(ld.df).columns = f.table.columns
              /\ n > max_rows =>
                    /\ Len(Get(ld.df).rows) = max_rows
                    /\ \A k \in 1..max_rows :
                          Get(ld.df).rows[k] = f.table.rows[k]
                    /\ ld.warning # None
                    /\ Get(ld.warning).original_rows = n
              /\ n <= max_rows =>
                    /\ Get(ld.df) = f.table
                    /\ ld.warning = None

\* a two-row table whose rows differ was cut to its first row
C1_Witness ==
    /\ analysis_type = "load"
    /\ max_rows = 1
    /\ Len(loaded) = 1
    /\ loaded[1].df # None
    /\ loaded[1].warning # None
    /\ Len(FileOf(1).table.rows) = 2
    /\ FileOf(1).table.rows[1] # FileOf(1).table.rows[2]
    /\ Get(loaded[1].df).rows = <<FileOf(1).table.rows[1]>>

\* C2: in compare mode, a press of Generate with a selected target that is
\* missing from either dataset shows the target error and calls sweetviz
\* not at all; with no target, or one present in both, sv.compare is called.
C2_TargetMismatchBlocks ==
    (/\ analysis_type = "compare"
     /\ widgets.clicked
     /\ Len(loaded) = 2
     /\ loaded[1].df # None
     /\ loaded[2].df # None) =>
        LET t == widgets.target_feature
            in1 == t \in SeqToSet(Get(loaded[1].df).columns)
            in2 == t \in SeqToSet(Get(loaded[2].df).columns)
        IN  IF t # "None" /\ ~(in1 /\ in2)
            THEN Shown("error: target not in both") /\ calls = <<>>
            ELSE Called("sv.compare")

\* C6: a file whose name does not end in .csv or .json (in any case), or
\* whose parsing raises, loads as no dataframe with an error message; a run
\* of any mode in which a load failed shows the error, displays no
\* dataset and calls sweetviz not at all.
C6_FailedLoad ==
    /\ \A i \in LoadIndices :
          (FileOf(i).name \notin SupportedNames \/ FileOf(i).raises) =>
              /\ loaded[i].df = None
              /\ loaded[i].warning # None
    /\ (analysis_type \in Modes
        /\ \E i \in 1..Len(loaded) : loaded[i].df = None) =>
          /\ \A i \in 1..Len(loaded) :
                loaded[i].df = None =>
                    Shown(IF analysis_type = "compare"
                          THEN (IF i = 1 THEN "error: load source"
                                         ELSE "error: load compare")
                          ELSE "error: load")
          /\ calls = <<>>
          /\ request = None
          /\ infos = <<>>
          /\ returned = "not called"
          /\ ~unhandled

\* compare mode: the second file is malformed, the first loads
C6_Witness ==
    /\ analysis_type = "compare"
    /\ Len(loaded) = 2
    /\ loaded[1].df # None
    /\ loaded[2].df = None
    /\ FileOf(2).raises
    /\ Shown("error: load compare")
    /\ ~Shown("error: load source")

\* C7: a failure raised by sweetviz, while the report is built or while it
\* is rendered, ends the run with an error shown and never escapes the
\* script.
C7_GeneratorFailureCaught ==
    raised \in {"build", "show_html"} =>
        /\ ~unhandled
        /\ \E i \in 1..Len(messages) :
              messages[i] \in {"error: generating Sweetviz report",
                               "error: creating train/test split",
                               "error: creating sub-population comparison"}

\* C8: the missing percentage shown for any dataset has a denominator of
\* at least 1, lies in [0, 100], and is 0 when the dataset has no null
\* cell.
C8_MissingPct ==
    /\ \A i \in 1..Len(infos) :
          /\ infos[i].missing_den >= 1
          /\ infos[i].missing_num >= 0
          /\ infos[i].missing_num <= 100 * infos[i].missing_den
    /\ (infos # <<>> /\ analysis_type \in Modes) =>
          LET df == Get(loaded[1].df)
          IN  /\ infos[1].rows = Len(df.rows)
              /\ infos[1].columns = Len(df.columns)
              /\ (\A r \in 1..Len(df.rows) : \A c \in 1..Len(df.columns) :
                      df.rows[r][c].kind # "null") => infos[1].missing_num = 0
              /\ (\A r \in 1..Len(df.rows) : \A c \in 1..Len(df.columns) :
                      df.rows[r][c].kind = "null") =>
                    infos[1].missing_num \in {0, 100 * infos[1].missing_den}

\* the first dataset displayed has rows and no column
C8_Witness ==
    /\ infos # <<>>
    /\ infos[1].rows > 0
    /\ infos[1].columns = 0
    /\ infos[1].missing_num = 0

\* C9: whenever generate_sweetviz_report has returned (True or False), no
\* temporary file it created still exists.
C9_TempFileDeleted ==
    returned # "not called" => ~tmp_exists

\* the sub-population run got as far as a selected grouping column
SubSelected ==
    /\ analysis_type = "subpop"
    /\ Len(loaded) = 1
    /\ loaded[1].df # None
    /\ Truthy(widgets.condition_column)

\* the grouping column, its distinct non-null values, the path it takes
\* and the rows its condition puts in group 1, all read off the dataset
SubCells ==
    LET df == Get(loaded[1].df)
        c == CHOOSE k \in 1..Len(df.columns) :
                 df.columns[k] = Get(widgets.condition_column)
    IN  [r \in 1..Len(df.rows) |-> df.rows[r][c]]
SubDistinct == {SubCells[r] : r \in DOMAIN SubCells} \ {Null}
SubByEquality ==
    \/ Cardinality(SubDistinct) <= MaxCategories
    \/ \E r \in DOMAIN SubCells : SubCells[r].kind = "text"
SubGroup1 ==
    IF SubByEquality
    THEN {r \in DOMAIN SubCells :
            SubCells[r] # Null /\ SubCells[r] = widgets.choice}
    ELSE {r \in DOMAIN SubCells :
            /\ SubCells[r].kind \in {"num", "date"}
            /\ SubCells[r].v <= widgets.choice.v}
SubGroup2 == (DOMAIN SubCells) \ SubGroup1

\* the rows on each side of the mask the run built
MaskTrue == {r \in DOMAIN Get(subpop).mask : Get(subpop).mask[r]}
MaskFalse == {r \in DOMAIN Get(subpop).mask : ~Get(subpop).mask[r]}

C4_SubpopPartition ==
    (SubSelected /\ subpop # None) =>
        LET sp == Get(subpop)
            n == Len(Get(loaded[1].df).rows)
        IN  /\ sp.g1 + sp.g2 = n
            /\ sp.g1 = Cardinality(SubGroup1)
            /\ sp.g2 = Cardinality(SubGroup2)
            /\ \A r \in 1..n :
                  (\/ SubCells[r].kind = "null"
                   \/ (~SubByEquality
                       /\ SubCells[r].kind \notin {"num", "date"})) =>
                      ~sp.mask[r]
            /\ request # None =>
                  /\ Get(request).source_rows = {r \in 1..n : sp.mask[r]}
                  /\ Get(request).compare_rows = {r \in 1..n : ~sp.mask[r]}
                  /\ Get(request).source_rows = SubGroup1

\* C10: on the equality path of sub-population mode both groups have at
\* least one row, and the empty-group error appears on the threshold path
\* only.
C10_EqualityGroupsNonEmpty ==
    SubSelected =>
        /\ (subpop # None /\ SubByEquality) =>
              /\ Get(subpop).by_equality
              /\ Get(subpop).g1 >= 1
              /\ Get(subpop).g2 >= 1
        /\ Shown("error: empty group") =>
              (subpop # None /\ ~SubByEquality /\ ~Get(subpop).by_equality)

\* the equality path on a column with a null and a text value
C10_Witness ==
    /\ SubSelected
    /\ subpop # None
    /\ SubByEquality
    /\ Cardinality(SubDistinct) > MaxCategories
    /\ \E r \in DOMAIN SubCells : SubCells[r].kind = "null"
    /\ Get(subpop).g1 = 1

\* the run pressed Generate in train/test mode on a loaded dataset
SplitPressed ==
    /\ analysis_type = "split"
    /\ Len(loaded) = 1
    /\ loaded[1].df # None
    /\ widgets.clicked

\* the stratify column has a class of exactly one row
LonelyClass ==
    /\ widgets.stratify_col # "None"
    /\ LET df == Get(loaded[1].df)
           c == CHOOSE k \in 1..Len(df.columns) :
                    df.columns[k] = widgets.stratify_col
       IN  \E r \in 1..Len(df.rows) :
              \A q \in 1..Len(df.rows) :
                  q # r => df.rows[q][c] # df.rows[r][c]

\* C5: in train/test mode a split that succeeds hands sweetviz a training
\* set and a test set that share no row and whose sizes add up to the
\* dataset's; a split that fails (as with a stratify class of one row)
\* displays no group and calls sweetviz not at all.
C5_TrainTestPartition ==
    SplitPressed =>
        LET n == Len(Get(loaded[1].df).rows)
        IN  /\ split # None =>
                /\ Get(split).train \cap Get(split).test = {}
                /\ Get(split).train \cup Get(split).test = 1..n
                /\ Cardinality(Get(split).train)
                     + Cardinality(Get(split).test) = n
                /\ Len(infos) = 3
                /\ infos[2].rows + infos[3].rows = n
                /\ infos[2].rows = Cardinality(Get(split).train)
                /\ Called("sv.compare")
            /\ request # None =>
                /\ split # None
                /\ Get(request).source_rows = Get(split).train
                /\ Get(request).compare_rows = Get(split).test
            /\ LonelyClass => raised = "split"
            /\ raised = "split" =>
                /\ split = None
                /\ calls = <<>>
                /\ request = None
                /\ Len(infos) = 1
                /\ Shown("error: creating train/test split")
            /\ split = None => raised = "split"

\* a stratified split of two classes of two rows each, report generated
C5_Witness ==
    /\ SplitPressed
    /\ widgets.stratify_col # "None"
    /\ split # None
    /\ Cardinality(Get(split).train) = 2
    /\ Cardinality(Get(split).test) = 2
    /\ Cardinality({Get(loaded[1].df).rows[r] :
                       r \in Get(split).train}) = 2
    /\ returned = "True"

====
